---- MODULE Spec2Model ----
(***************************************************************************)
(* Utterance: client-side turn-taking detection.                           *)
(*                                                                         *)
(* The module models the TurnDetector state machine (detector), the        *)
(* EnergyVAD fallback, the windowed ONNX classifier, the stateful part of  *)
(* the FeatureExtractor and the Utterance orchestrator (start / stop /     *)
(* audio callback / processFrames).                                        *)
(*                                                                         *)
(* Units: energies and amplitudes are in 1e-4, confidences, probabilities  *)
(* and the sensitivity in percent, timestamps in ms. The pause accumulator *)
(* is an IEEE-754 double, kept exactly as three limbs (see DAdd).          *)
(***************************************************************************)
EXTENDS Integers, Sequences, FiniteSets, TLC

VARIABLES
    \* ---- options (UtteranceOptions, fixed at construction)
    sensitivity,        \* percent
    pauseTolerance,     \* ms
    \* ---- TurnDetector
    det,                \* [state, pauseStart, speakStart, lastInterruptTs, interruptStreak, speakStreak]
    \* ---- harness driving TurnDetector.process directly (as tests/detector.test.ts does)
    tdN,                \* process() calls since construction
    tdResets,           \* reset() calls since construction
    tdIn,               \* the result handed to the last process() call
    tdOut,              \* the events that call emitted, in order
    tdCount,            \* events emitted since construction, per type
    tdAllSpeaking,      \* every result processed so far was "speaking"
    tdScript,           \* how many leading calls followed PauseScript
    \* ---- Utterance
    listening,
    processing,         \* the re-entrancy guard of processFrames
    sampleBuffer,       \* the first sampleBufferLen samples, as runs [a |-> amplitude, n |-> count]
    sampleBufferCap,    \* sampleBuffer.length
    inflight,           \* processFrames passes suspended in session.run
    starts,             \* start() calls in progress: [loading, capturing]
    \* ---- AudioCapture
    audio,              \* [callback, processor, leaked]
    \* ---- FeatureExtractor, ONNXModel, EnergyVAD
    fe,                 \* [silenceAccumulator, energyBuffer, energyBufferIdx, energyBufferFull]
    mdl,                \* [session, frameBuffer, bufferIdx, framesBuffered, framesSinceInference, lastResult, silenceMode]
    vad,                \* [isSpeaking, silenceStart]
    now,                \* Date.now()
    \* ---- history of the run
    predicted,          \* the non-null results model.predict returned, in order, and
    processed,          \* the results passed to detector.process, in order: both without
                        \* their longest common prefix (hist.matched counts it)
    hist,               \* counters and flags, see HistInit
    \* ---- harnesses of the components
    twin,               \* a TurnDetector constructed at the last reset() and fed the same results
    ir,                 \* what a caller of process() observed of interrupts, see IrInit
    listeners,          \* TurnDetector.listeners: per event, the listeners in insertion order
    calls,              \* listener invocations of the last process() call, see CallsInit
    mh,                 \* what a caller of ONNXModel.predict observed, see MhInit
    vh,                 \* what a caller of EnergyVAD.classify observed, see VhInit
    fh,                 \* what a caller of FeatureExtractor.extract observed, see FhInit
    ph,                 \* what the fallback pipeline has emitted for the current turn, see PhInit
    eh                  \* the order of the events the detector emitted, see EhInit

tdVars == <<sensitivity, pauseTolerance, det, tdN, tdResets, tdIn, tdOut, tdCount,
            tdAllSpeaking, tdScript>>

uVars == <<listening, processing, sampleBuffer, sampleBufferCap, inflight, starts, audio,
           fe, mdl, vad, now, predicted, processed, hist>>

xVars == <<twin, ir, listeners, calls, mh, vh, fh, ph, eh>>

vars == <<tdVars, uVars, xVars>>

----------------------------------------------------------------------------
\* Bounds of the model

MaxInputs == 4          \* process() calls of one TurnDetector harness run
MaxResets == 1          \* reset() calls of one TurnDetector harness run
MaxChunks == 5          \* audio chunks delivered to one Utterance
MaxStartCalls == 2      \* start() calls of one Utterance that pass the listening check

\* Input sets
Labels == {"speaking", "thinking_pause", "turn_complete", "interrupt_intent"}
EventTypes == {"speechStart", "pause", "turnEnd", "interrupt"}
Confs == {30, 50, 80, 90}
Times == {0, 500, 1500, 1600, 3500}
Sensitivities == {50, 80}
Tolerances == {1000, 1500}

NoResult == [label |-> "none", confidence |-> 0, timestamp |-> 0]

----------------------------------------------------------------------------
\* TurnDetector

SPEAK_DEBOUNCE == 2
INTERRUPT_DEBOUNCE == 3
INTERRUPT_COOLDOWN_MS == 3000

\* Field initialisers of the class, which reset() restores.
DetectorInit ==
    [state |-> "idle", pauseStart |-> 0, speakStart |-> 0,
     lastInterruptTs |-> 0, interruptStreak |-> 0, speakStreak |-> 0]

\* A step of process(): the detector after it and the events emitted, in order.
Step(d, out) == [det |-> d, out |-> out]

\* speechStart fires although the detector is already speaking.
ProcessSpeaking_NoStateCheck(d, r) ==
    LET streak == d.speakStreak + 1 IN
    IF streak >= SPEAK_DEBOUNCE
    THEN Step([d EXCEPT !.interruptStreak = 0, !.state = "speaking",
                        !.speakStart = r.timestamp, !.speakStreak = 0],
              <<[type |-> "speechStart", timestamp |-> r.timestamp]>>)
    ELSE Step([d EXCEPT !.interruptStreak = 0, !.speakStreak = streak], <<>>)

\* case "speaking"
ProcessSpeaking(d, r) ==
    LET streak == d.speakStreak + 1 IN
    IF d.state # "speaking" /\ streak >= SPEAK_DEBOUNCE
    THEN Step([d EXCEPT !.interruptStreak = 0, !.state = "speaking",
                        !.speakStart = r.timestamp, !.speakStreak = 0],
              <<[type |-> "speechStart", timestamp |-> r.timestamp]>>)
    ELSE Step([d EXCEPT !.interruptStreak = 0, !.speakStreak = streak], <<>>)

\* The pause branch ignores the confidence threshold.
ProcessThinkingPause_NoThreshold(d, r, threshold, tolerance) ==
    IF d.state = "speaking"
    THEN Step([d EXCEPT !.speakStreak = 0, !.state = "paused", !.pauseStart = r.timestamp],
              <<[type |-> "pause", duration |-> 0, confidence |-> r.confidence]>>)
    ELSE IF d.state = "paused" /\ r.timestamp - d.pauseStart >= tolerance
    THEN Step([d EXCEPT !.speakStreak = 0, !.state = "idle"],
              <<[type |-> "turnEnd", confidence |-> r.confidence,
                 duration |-> r.timestamp - d.speakStart]>>)
    ELSE Step([d EXCEPT !.speakStreak = 0], <<>>)

\* The tolerance test is strict (> instead of >=).
ProcessThinkingPause_Strict(d, r, threshold, tolerance) ==
    IF d.state = "speaking" /\ r.confidence >= threshold
    THEN Step([d EXCEPT !.speakStreak = 0, !.state = "paused", !.pauseStart = r.timestamp],
              <<[type |-> "pause", duration |-> 0, confidence |-> r.confidence]>>)
    ELSE IF d.state = "paused" /\ r.timestamp - d.pauseStart > tolerance
    THEN Step([d EXCEPT !.speakStreak = 0, !.state = "idle"],
              <<[type |-> "turnEnd", confidence |-> r.confidence,
                 duration |-> r.timestamp - d.speakStart]>>)
    ELSE Step([d EXCEPT !.speakStreak = 0], <<>>)

\* case "thinking_pause"
ProcessThinkingPause(d, r, threshold, tolerance) ==
    IF d.state = "speaking" /\ r.confidence >= threshold
    THEN Step([d EXCEPT !.speakStreak = 0, !.state = "paused", !.pauseStart = r.timestamp],
              <<[type |-> "pause", duration |-> 0, confidence |-> r.confidence]>>)
    ELSE IF d.state = "paused" /\ r.timestamp - d.pauseStart >= tolerance
    THEN Step([d EXCEPT !.speakStreak = 0, !.state = "idle"],
              <<[type |-> "turnEnd", confidence |-> r.confidence,
                 duration |-> r.timestamp - d.speakStart]>>)
    ELSE Step([d EXCEPT !.speakStreak = 0], <<>>)

\* turnEnd is gated on the state alone, and its duration is the raw timestamp.
ProcessTurnComplete_NoThreshold(d, r, threshold) ==
    IF d.state \in {"speaking", "paused"}
    THEN Step([d EXCEPT !.speakStreak = 0, !.state = "idle"],
              <<[type |-> "turnEnd", confidence |-> r.confidence,
                 duration |-> r.timestamp]>>)
    ELSE Step([d EXCEPT !.speakStreak = 0], <<>>)

\* turnEnd is emitted from every state.
ProcessTurnComplete_AnyState(d, r, threshold) ==
    IF r.confidence >= threshold
    THEN Step([d EXCEPT !.speakStreak = 0, !.state = "idle"],
              <<[type |-> "turnEnd", confidence |-> r.confidence,
                 duration |-> r.timestamp - d.speakStart]>>)
    ELSE Step([d EXCEPT !.speakStreak = 0], <<>>)

\* case "turn_complete"
ProcessTurnComplete(d, r, threshold) ==
    IF d.state \in {"speaking", "paused"} /\ r.confidence >= threshold
    THEN Step([d EXCEPT !.speakStreak = 0, !.state = "idle"],
              <<[type |-> "turnEnd", confidence |-> r.confidence,
                 duration |-> r.timestamp - d.speakStart]>>)
    ELSE Step([d EXCEPT !.speakStreak = 0], <<>>)

\* The interrupt fires on the streak alone, whatever the time since the last one.
ProcessInterruptIntent_NoCooldown(d, r, threshold) ==
    IF r.confidence >= threshold
    THEN LET streak == d.interruptStreak + 1
         IN IF streak >= INTERRUPT_DEBOUNCE
            THEN Step([d EXCEPT !.speakStreak = 0, !.lastInterruptTs = r.timestamp,
                                !.interruptStreak = 0],
                      <<[type |-> "interrupt", timestamp |-> r.timestamp,
                         confidence |-> r.confidence]>>)
            ELSE Step([d EXCEPT !.speakStreak = 0, !.interruptStreak = streak], <<>>)
    ELSE Step([d EXCEPT !.speakStreak = 0, !.interruptStreak = 0], <<>>)

\* case "interrupt_intent"
ProcessInterruptIntent(d, r, threshold) ==
    IF r.confidence >= threshold
    THEN LET streak == d.interruptStreak + 1
             cooledDown == r.timestamp - d.lastInterruptTs >= INTERRUPT_COOLDOWN_MS
         IN IF streak >= INTERRUPT_DEBOUNCE /\ cooledDown
            THEN Step([d EXCEPT !.speakStreak = 0, !.lastInterruptTs = r.timestamp,
                                !.interruptStreak = 0],
                      <<[type |-> "interrupt", timestamp |-> r.timestamp,
                         confidence |-> r.confidence]>>)
            ELSE Step([d EXCEPT !.speakStreak = 0, !.interruptStreak = streak], <<>>)
    ELSE Step([d EXCEPT !.speakStreak = 0, !.interruptStreak = 0], <<>>)

\* TurnDetector.process(result)
Process(d, r, threshold, tolerance) ==
    CASE r.label = "speaking"         -> ProcessSpeaking(d, r)
      [] r.label = "thinking_pause"   -> ProcessThinkingPause(d, r, threshold, tolerance)
      [] r.label = "turn_complete"    -> ProcessTurnComplete(d, r, threshold)
      [] r.label = "interrupt_intent" -> ProcessInterruptIntent(d, r, threshold)
      [] OTHER                        -> Step(d, <<>>)      \* no case of the switch matches

\* reset() leaves the speaking streak as it is.
DetectorReset_KeepsStreak(d) == [DetectorInit EXCEPT !.speakStreak = d.speakStreak]

\* TurnDetector.reset()
DetectorReset(d) == DetectorInit

\* The elements of a sequence.
Range(q) == {q[i] : i \in 1..Len(q)}

\* on(event, listener): Set.add, which keeps the place of a listener already there
On(ls, e, l) ==
    IF l \in Range(ls[e]) THEN ls ELSE [ls EXCEPT ![e] = Append(@, l)]

\* off(event, listener): Set.delete
Off(ls, e, l) ==
    [ls EXCEPT ![e] = SelectSeq(@, LAMBDA x : x # l)]

\* The listeners that throw when invoked.
Throwing == {"g"}

\* forEach((fn) => fn(payload)) over the listeners reg, of which those in
\* throwing throw: the listeners invoked, in order, and whether the call threw.
RECURSIVE Dispatch(_, _, _)
Dispatch(reg, throwing, done) ==
    IF reg = <<>> THEN [invoked |-> done, threw |-> FALSE]
    ELSE IF Head(reg) \in throwing THEN [invoked |-> Append(done, Head(reg)), threw |-> TRUE]
    ELSE Dispatch(Tail(reg), throwing, Append(done, Head(reg)))

\* emit(event, payload) for the events of one process() call
Emit(ls, out, throwing) ==
    IF out = <<>> THEN [event |-> "none", invoked |-> <<>>, threw |-> FALSE]
    ELSE LET d == Dispatch(ls[out[1].type], throwing, <<>>)
         IN [event |-> out[1].type, invoked |-> d.invoked, threw |-> d.threw]

\* The exception undoes the assignments process() made before emit.
Unwind_RollsBack(d0, s) == d0

\* The detector after an exception left process(d0) at its emit call, s being
\* the step of that call: emit is the last statement of every branch, so all
\* the assignments of the step have been made.
Unwind(d0, s) == s.det

----------------------------------------------------------------------------
\* Utterance: framing of the sample buffer

Unit == 10000               \* 1.0 in the unit of amplitudes and energies
SampleRate == 16000         \* DEFAULT_OPTIONS.sampleRate
FrameLength == (SampleRate * 25) \div 1000      \* Math.floor(sampleRate * 0.025)
HopLength == SampleRate \div 100                \* Math.floor(sampleRate * 0.01)
InitialCapacity == 8192 + FrameLength
ChunkSize == 4096           \* the ScriptProcessorNode buffer size
ChunkMs == (ChunkSize * 1000) \div SampleRate   \* wall-clock time one chunk of audio takes

Min(a, b) == IF a <= b THEN a ELSE b
Max(a, b) == IF a >= b THEN a ELSE b

\* sampleBufferLen
RECURSIVE BufLen(_)
BufLen(buf) == IF buf = <<>> THEN 0 ELSE Head(buf).n + BufLen(Tail(buf))

\* sampleBuffer.set(chunk, sampleBufferLen); sampleBufferLen += chunk.length
BufAppend(buf, a, n) ==
    IF buf # <<>> /\ buf[Len(buf)].a = a
    THEN [buf EXCEPT ![Len(buf)].n = @ + n]
    ELSE Append(buf, [a |-> a, n |-> n])

\* The buffer without its first k samples (all of them gone when k >= its length).
RECURSIVE BufDrop(_, _)
BufDrop(buf, k) ==
    IF k <= 0 THEN buf
    ELSE IF buf = <<>> THEN <<>>
    ELSE IF Head(buf).n > k THEN <<[Head(buf) EXCEPT !.n = @ - k]>> \o Tail(buf)
    ELSE BufDrop(Tail(buf), k - Head(buf).n)

\* remaining = len - hop; copyWithin(0, hop, len) when remaining > 0; len = max(0, remaining)
Advance(buf) == BufDrop(buf, HopLength)

\* The sum of the squares of the first k samples.
RECURSIVE SumSq(_, _)
SumSq(buf, k) ==
    IF k <= 0 \/ buf = <<>> THEN 0
    ELSE LET m == Min(Head(buf).n, k)
         IN Head(buf).a * Head(buf).a * m + SumSq(Tail(buf), k - m)

\* Math.sqrt, rounded down to the unit.
RECURSIVE SqrtSearch(_, _, _)
SqrtSearch(x, lo, hi) ==
    IF lo >= hi THEN lo
    ELSE LET mid == (lo + hi + 1) \div 2
         IN IF mid * mid <= x THEN SqrtSearch(x, mid, hi) ELSE SqrtSearch(x, lo, mid - 1)

Sqrt(x) == SqrtSearch(x, 0, Unit)

----------------------------------------------------------------------------
\* FeatureExtractor (its state, and the energy it reports)

FramesPerSecond == 100      \* Math.floor(1.0 / frameDurationSec), the energy buffer length
FeSilenceThreshold == 100   \* silenceThreshold = 0.01

\* A double d with 0 <= d < 16 that is a multiple of 2^-59 is kept as the
\* integer d * 2^59, written <<h, m, l>> in base 2^21 (h the most significant).
DBase == 2097152

DZero == <<0, 0, 0>>

\* frameDurationSec = 0.01, the double 0x1.47ae147ae147bp-7
FrameDurationSec == <<1310, 1509949, 922747>>

\* 5.0, the cap of the pause accumulator in seconds
PauseCapSec == <<655360, 0, 0>>

RECURSIVE BitLen(_)
BitLen(x) == IF x = 0 THEN 0 ELSE 1 + BitLen(x \div 2)

RECURSIVE Pow2(_)
Pow2(k) == IF k = 0 THEN 1 ELSE 2 * Pow2(k - 1)

\* The limbs of h * 2^42 + m * 2^21 + l, carries propagated.
DNorm(h, m, l) ==
    LET m1 == m + l \div DBase
    IN <<h + m1 \div DBase, m1 % DBase, l % DBase>>

\* Rounding of an exact sum to the 53 significant bits of a double, to nearest
\* and to even on a tie (the bits dropped are bits of the lowest limb).
DRound(x) ==
    LET len == IF x[1] > 0 THEN 42 + BitLen(x[1])
               ELSE IF x[2] > 0 THEN 21 + BitLen(x[2]) ELSE BitLen(x[3])
        k == Max(0, len - 53)
        p == Pow2(k)
        r == x[3] % p
        up == k > 0 /\ (2 * r > p \/ (2 * r = p /\ (x[3] \div p) % 2 = 1))
    IN DNorm(x[1], x[2], x[3] - r + (IF up THEN p ELSE 0))

\* a + b in IEEE-754 double arithmetic
DAdd(a, b) == DRound(DNorm(a[1] + b[1], a[2] + b[2], a[3] + b[3]))

\* a < b
DLess(a, b) ==
    \/ a[1] < b[1]
    \/ a[1] = b[1] /\ a[2] < b[2]
    \/ a[1] = b[1] /\ a[2] = b[2] /\ a[3] < b[3]

\* Math.min(a, b)
DMin(a, b) == IF DLess(b, a) THEN b ELSE a

FeInit ==
    [silenceAccumulator |-> DZero,  \* seconds, a double
     energyBuffer |-> [i \in 1..FramesPerSecond |-> 0],
     energyBufferIdx |-> 0,
     energyBufferFull |-> FALSE]

\* computeEnergy of the frame sampleBuffer.subarray(0, frameLength)
ComputeEnergy(buf) == Sqrt(SumSq(buf, FrameLength) \div FrameLength)

\* extract(frame): what estimateSpeechRate and updatePauseDuration do to the state
Extract(f, energy) ==
    LET idx == (f.energyBufferIdx + 1) % FramesPerSecond IN
    [f EXCEPT !.energyBuffer[f.energyBufferIdx + 1] = energy,
              !.energyBufferIdx = idx,
              !.energyBufferFull = @ \/ idx = 0,
              !.silenceAccumulator = IF energy < FeSilenceThreshold
                                     THEN DAdd(@, FrameDurationSec) ELSE DZero]

\* Math.min(silenceAccumulator, 5.0): 5 times the pauseDuration extract()
\* returned last (the division by 5.0 is increasing and maps 5.0 to 1.0)
PauseSec(f) == DMin(f.silenceAccumulator, PauseCapSec)

\* estimateSpeechRate: the number of buffered energies it looks at
RateLen(f) == IF f.energyBufferFull THEN FramesPerSecond ELSE f.energyBufferIdx

\* estimateSpeechRate: entry i of the rolling buffer, oldest first, is a peak
\* (above both neighbours and above silenceThreshold * 0.5)
IsPeak(f, i) ==
    LET idx == (f.energyBufferIdx - RateLen(f) + i + FramesPerSecond) % FramesPerSecond
        prev == f.energyBuffer[((idx - 1 + FramesPerSecond) % FramesPerSecond) + 1]
        curr == f.energyBuffer[idx + 1]
        next == f.energyBuffer[((idx + 1) % FramesPerSecond) + 1]
    IN curr > prev /\ curr > next /\ 2 * curr > FeSilenceThreshold

\* estimateSpeechRate: the value returned by the extract() call that left the
\* state f, in percent: peaks / (len * frameDurationSec) / 10.0
SpeechRate(f) ==
    IF RateLen(f) < 5 THEN 0
    ELSE (1000 * Cardinality({i \in 2..(RateLen(f) - 3) : IsPeak(f, i)})) \div RateLen(f)

\* estimatePitch: Math.floor(sampleRate / 500), Math.floor(sampleRate / 50)
\* and nFft = Math.floor(sampleRate * 0.025)
MinPeriod == SampleRate \div 500
MaxPeriod == SampleRate \div 50
NFft == (SampleRate * 25) \div 1000

\* estimatePitch of a frame of frameLen samples: the pitches in Hz it can
\* return. Past its first return it returns 0 or sampleRate / bestLag for a lag
\* in [minPeriod, maxPeriod]; the autocorrelation that picks the lag is not
\* modelled.
EstimatePitch(frameLen) ==
    IF Min(frameLen, NFft) < MaxPeriod * 2 THEN {0}
    ELSE {0} \cup {SampleRate \div lag : lag \in MinPeriod..MaxPeriod}

\* reset()
FeReset(f) == FeInit

----------------------------------------------------------------------------
\* EnergyVAD

PauseHintMs == 800

VadInit == [isSpeaking |-> FALSE, silenceStart |-> 0]

\* speechThreshold = 0.015 * (1 - sensitivity * 0.8)
SpeechThreshold(s) == 150 - (120 * s) \div 100

\* energy >= silenceThreshold, where silenceThreshold = speechThreshold * 0.6
AtLeastSilenceThreshold(energy, s) == 10 * energy >= 6 * SpeechThreshold(s)

\* energyToConfidence
EnergyToConfidence(energy, s) == Min((100 * energy) \div (4 * SpeechThreshold(s)), 100)

\* A frame at or above the silence threshold leaves the silence timer running.
VadClassify_TimerKept(v, energy, t, s) ==
    IF ~v.isSpeaking /\ energy >= SpeechThreshold(s)
    THEN [vad |-> [isSpeaking |-> TRUE, silenceStart |-> 0],
          result |-> [label |-> "speaking", confidence |-> EnergyToConfidence(energy, s),
                      timestamp |-> t]]
    ELSE IF v.isSpeaking /\ AtLeastSilenceThreshold(energy, s)
    THEN [vad |-> v,
          result |-> [label |-> "speaking", confidence |-> EnergyToConfidence(energy, s),
                      timestamp |-> t]]
    ELSE IF v.isSpeaking
    THEN LET start == IF v.silenceStart = 0 THEN t ELSE v.silenceStart
             silenceDuration == t - start
         IN IF silenceDuration >= PauseHintMs
            THEN [vad |-> [isSpeaking |-> FALSE, silenceStart |-> start],
                  result |-> [label |-> "turn_complete",
                              confidence |-> Min((100 * silenceDuration) \div (PauseHintMs * 2), 100),
                              timestamp |-> t]]
            ELSE [vad |-> [v EXCEPT !.silenceStart = start],
                  result |-> [label |-> "thinking_pause", confidence |-> 60, timestamp |-> t]]
    ELSE [vad |-> v,
          result |-> [label |-> "thinking_pause", confidence |-> 30, timestamp |-> t]]

\* A frame that starts no speech is classified as an interrupt.
VadClassify_IdleInterrupt(v, energy, t, s) ==
    IF ~v.isSpeaking /\ energy >= SpeechThreshold(s)
    THEN [vad |-> [isSpeaking |-> TRUE, silenceStart |-> 0],
          result |-> [label |-> "speaking", confidence |-> EnergyToConfidence(energy, s),
                      timestamp |-> t]]
    ELSE IF v.isSpeaking /\ AtLeastSilenceThreshold(energy, s)
    THEN [vad |-> [v EXCEPT !.silenceStart = 0],
          result |-> [label |-> "speaking", confidence |-> EnergyToConfidence(energy, s),
                      timestamp |-> t]]
    ELSE IF v.isSpeaking
    THEN LET start == IF v.silenceStart = 0 THEN t ELSE v.silenceStart
             silenceDuration == t - start
         IN IF silenceDuration >= PauseHintMs
            THEN [vad |-> [isSpeaking |-> FALSE, silenceStart |-> start],
                  result |-> [label |-> "turn_complete",
                              confidence |-> Min((100 * silenceDuration) \div (PauseHintMs * 2), 100),
                              timestamp |-> t]]
            ELSE [vad |-> [v EXCEPT !.silenceStart = start],
                  result |-> [label |-> "thinking_pause", confidence |-> 60, timestamp |-> t]]
    ELSE [vad |-> v,
          result |-> [label |-> "interrupt_intent", confidence |-> 30, timestamp |-> t]]

\* classify(features) at time t: the state after it and the result
VadClassify(v, energy, t, s) ==
    IF ~v.isSpeaking /\ energy >= SpeechThreshold(s)
    THEN [vad |-> [isSpeaking |-> TRUE, silenceStart |-> 0],
          result |-> [label |-> "speaking", confidence |-> EnergyToConfidence(energy, s),
                      timestamp |-> t]]
    ELSE IF v.isSpeaking /\ AtLeastSilenceThreshold(energy, s)
    THEN [vad |-> [v EXCEPT !.silenceStart = 0],
          result |-> [label |-> "speaking", confidence |-> EnergyToConfidence(energy, s),
                      timestamp |-> t]]
    ELSE IF v.isSpeaking
    THEN LET start == IF v.silenceStart = 0 THEN t ELSE v.silenceStart
             silenceDuration == t - start
         IN IF silenceDuration >= PauseHintMs
            THEN [vad |-> [isSpeaking |-> FALSE, silenceStart |-> start],
                  result |-> [label |-> "turn_complete",
                              confidence |-> Min((100 * silenceDuration) \div (PauseHintMs * 2), 100),
                              timestamp |-> t]]
            ELSE [vad |-> [v EXCEPT !.silenceStart = start],
                  result |-> [label |-> "thinking_pause", confidence |-> 60, timestamp |-> t]]
    ELSE [vad |-> v,
          result |-> [label |-> "thinking_pause", confidence |-> 30, timestamp |-> t]]

\* reset()
VadReset(v) == VadInit

----------------------------------------------------------------------------
\* ONNXModel

CONTEXT_FRAMES == 100
INFERENCE_INTERVAL == 10
RECENT == 10
SILENCE_ENTER_THRESHOLD == 200      \* 0.02
SILENCE_EXIT_THRESHOLD == 600       \* 0.06
INTERRUPT_ENERGY_THRESHOLD == 800   \* 0.08
OverrideConfidence == 70            \* Math.max(probs[1], 0.7)

LABELS == <<"speaking", "thinking_pause", "turn_complete", "interrupt_intent">>

\* Of the 17 features of a frame the buffer keeps here the energy (index 13),
\* the one the classifier's own logic reads; the others only reach the tensor.
ModelInit ==
    [session |-> FALSE,
     frameBuffer |-> [i \in 1..CONTEXT_FRAMES |-> 0],
     bufferIdx |-> 0,
     framesBuffered |-> 0,
     framesSinceInference |-> 0,
     lastResult |-> NoResult,
     silenceMode |-> FALSE]

\* addFrame(features)
AddFrame(m, energy) ==
    [m EXCEPT !.frameBuffer[m.bufferIdx + 1] = energy,
              !.bufferIdx = (@ + 1) % CONTEXT_FRAMES,
              !.framesBuffered = IF @ < CONTEXT_FRAMES THEN @ + 1 ELSE @]

\* The window is read from the start of the buffer, not from the cursor.
Unrolled_NoRotation(m, i) == m.frameBuffer[i + 1]

\* The energy of frame i (0 = oldest) of the unrolled window.
Unrolled(m, i) ==
    m.frameBuffer[((m.bufferIdx - CONTEXT_FRAMES + i + CONTEXT_FRAMES) % CONTEXT_FRAMES) + 1]

\* recentEnergy * RECENT: the sum of the raw energy of the last RECENT frames
RECURSIVE RecentSumFrom(_, _)
RecentSumFrom(m, i) ==
    IF i >= CONTEXT_FRAMES THEN 0 ELSE Unrolled(m, i) + RecentSumFrom(m, i + 1)

RecentSum(m) == RecentSumFrom(m, CONTEXT_FRAMES - RECENT)

\* The index (from 1) of the first largest probability.
ArgMax(probs) ==
    CHOOSE i \in 1..Len(probs) :
        /\ \A j \in 1..Len(probs) : probs[j] <= probs[i]
        /\ \A j \in 1..(i - 1) : probs[j] < probs[i]

\* Silence mode is entered and left at the one threshold 0.02.
Infer_OneThreshold(m, recentSum, probs, t) ==
    LET silence == recentSum < SILENCE_ENTER_THRESHOLD * RECENT
        top == ArgMax(probs)
        override == silence /\ LABELS[top] \in {"speaking", "interrupt_intent"}
        idx1 == IF override THEN 2 ELSE top
        prob1 == IF override THEN Max(probs[2], OverrideConfidence) ELSE probs[top]
        gate == LABELS[idx1] = "interrupt_intent"
                /\ recentSum < INTERRUPT_ENERGY_THRESHOLD * RECENT
        result == [label |-> IF gate THEN LABELS[1] ELSE LABELS[idx1],
                   confidence |-> IF gate THEN probs[1] ELSE prob1,
                   timestamp |-> t]
    IN [mdl |-> [m EXCEPT !.silenceMode = silence, !.lastResult = result],
        result |-> result]

\* Silence mode does not override the top label.
Infer_NoOverride(m, recentSum, probs, t) ==
    LET silence == IF m.silenceMode
                   THEN ~(recentSum > SILENCE_EXIT_THRESHOLD * RECENT)
                   ELSE recentSum < SILENCE_ENTER_THRESHOLD * RECENT
        top == ArgMax(probs)
        gate == LABELS[top] = "interrupt_intent"
                /\ recentSum < INTERRUPT_ENERGY_THRESHOLD * RECENT
        result == [label |-> IF gate THEN LABELS[1] ELSE LABELS[top],
                   confidence |-> IF gate THEN probs[1] ELSE probs[top],
                   timestamp |-> t]
    IN [mdl |-> [m EXCEPT !.silenceMode = silence, !.lastResult = result],
        result |-> result]

\* The interrupt energy gate is missing.
Infer_NoGate(m, recentSum, probs, t) ==
    LET silence == IF m.silenceMode
                   THEN ~(recentSum > SILENCE_EXIT_THRESHOLD * RECENT)
                   ELSE recentSum < SILENCE_ENTER_THRESHOLD * RECENT
        top == ArgMax(probs)
        override == silence /\ LABELS[top] \in {"speaking", "interrupt_intent"}
        idx1 == IF override THEN 2 ELSE top
        prob1 == IF override THEN Max(probs[2], OverrideConfidence) ELSE probs[top]
        result == [label |-> LABELS[idx1], confidence |-> prob1, timestamp |-> t]
    IN [mdl |-> [m EXCEPT !.silenceMode = silence, !.lastResult = result],
        result |-> result]

\* runInference after session.run resolved with these probabilities: the
\* hysteresis, the silence override and the interrupt energy gate.
Infer(m, recentSum, probs, t) ==
    LET silence == IF m.silenceMode
                   THEN ~(recentSum > SILENCE_EXIT_THRESHOLD * RECENT)
                   ELSE recentSum < SILENCE_ENTER_THRESHOLD * RECENT
        top == ArgMax(probs)
        override == silence /\ LABELS[top] \in {"speaking", "interrupt_intent"}
        idx1 == IF override THEN 2 ELSE top
        prob1 == IF override THEN Max(probs[2], OverrideConfidence) ELSE probs[top]
        gate == LABELS[idx1] = "interrupt_intent"
                /\ recentSum < INTERRUPT_ENERGY_THRESHOLD * RECENT
        result == [label |-> IF gate THEN LABELS[1] ELSE LABELS[idx1],
                   confidence |-> IF gate THEN probs[1] ELSE prob1,
                   timestamp |-> t]
    IN [mdl |-> [m EXCEPT !.silenceMode = silence, !.lastResult = result],
        result |-> result]

\* dispose(): session and ort dropped, resetBuffer()
Dispose(m) == ModelInit

\* Inference runs whenever INFERENCE_INTERVAL frames have passed, full window or not.
Due_NoWindowCheck(since, buffered) == since >= INFERENCE_INTERVAL

\* predict(): the condition under which runInference is called
Due(since, buffered) == since >= INFERENCE_INTERVAL /\ buffered >= CONTEXT_FRAMES

\* predict(features) with a session, up to its return of null (infer = FALSE)
\* or to its await of runInference (infer = TRUE)
PredictStep(m, energy) ==
    LET m1 == AddFrame(m, energy)
        since == m1.framesSinceInference + 1
    IN IF Due(since, m1.framesBuffered)
       THEN [mdl |-> [m1 EXCEPT !.framesSinceInference = 0], infer |-> TRUE]
       ELSE [mdl |-> [m1 EXCEPT !.framesSinceInference = since], infer |-> FALSE]

----------------------------------------------------------------------------
\* Construction of an Utterance, inputs and the history kept of a run

DefaultSensitivity == 50        \* DEFAULT_OPTIONS.sensitivity
DefaultPauseTolerance == 1500   \* DEFAULT_OPTIONS.pauseTolerance
StartClock == 100000            \* Date.now() when the Utterance is constructed

Amplitudes == {0, 1000}         \* a chunk is silent, or a square wave of amplitude 0.1
\* softmax outputs of session.run, in percent, in the order of LABELS
ProbVecs == { <<70, 20, 5, 5>>, <<10, 75, 10, 5>>, <<5, 10, 80, 5>>, <<5, 3, 2, 90>> }

HistInit ==
    [nStartCalls |-> 0,         \* start() calls that passed the listening check
     nChunks |-> 0,             \* chunks the audio callback received
     passesStarted |-> 0,       \* processFrames calls that took the guard
     dirty |-> FALSE,           \* start() reset the guard while a pass was in flight, and
                                \* the passes have not all ended since
     overlapped |-> FALSE,      \* start() was called while a start() was in progress
     sawNull |-> FALSE,         \* predict() has returned null
     sawInferred |-> FALSE,     \* predict() has returned a result of runInference
     matched |-> 0,             \* results predict() returned that were then processed, in order
     nProcessed |-> 0,          \* detector.process calls
     nEvents |-> 0,             \* events emitted
     rejected |-> 0,            \* start() calls that rejected
     delivered |-> 0,           \* samples appended since sampleBufferLen was last zeroed
     extracted |-> 0,           \* frames handed to extract() since then
     threw |-> 0]               \* processFrames passes ended by an exception

\* What a caller that feeds results with non-decreasing timestamps has seen.
IrInit ==
    [n |-> 0,                   \* results processed
     count |-> 0,               \* interrupt events emitted
     last |-> -1,               \* timestamp of the last interrupt event emitted, -1: none yet
     qual |-> 0,                \* how many of the most recent results were, without a gap,
                                \* interrupt_intent with confidence >= sensitivity
     script |-> 0]              \* how many leading calls followed BurstScript

\* new Map(): no listener is registered
ListenersInit == [e \in EventTypes |-> <<>>]

\* The listeners the last process() call invoked, in order, and whether it threw.
CallsInit == [event |-> "none", invoked |-> <<>>, threw |-> FALSE]

\* What a caller of classify() has seen of the current run of speech.
VhInit ==
    [n |-> 0,                   \* classify() calls
     quietSince |-> -1,         \* Date.now() at the first of the frames below the silence
                                \* threshold that ended the call sequence, -1: none
     completes |-> 0,           \* turn_complete results since speech last began
     energy |-> 0,              \* the energy of the last frame
     result |-> NoResult]       \* what the last call returned

\* What the listeners of a detector have seen of the order of its events.
EhInit ==
    [open |-> FALSE,            \* speechStart was emitted, and no turnEnd since
     paused |-> FALSE]          \* pause was emitted, and no speechStart since

\* The same after the events out of one process() call.
RECURSIVE Seen(_, _)
Seen(h, out) ==
    IF out = <<>> THEN h
    ELSE Seen(CASE Head(out).type = "speechStart" -> [open |-> TRUE, paused |-> FALSE]
                [] Head(out).type = "turnEnd" -> [h EXCEPT !.open = FALSE]
                [] Head(out).type = "pause" -> [h EXCEPT !.paused = TRUE]
                [] OTHER -> h,
              Tail(out))

\* What the fallback pipeline (EnergyVAD.classify into TurnDetector.process) has
\* done for the current turn.
PhInit ==
    [fed |-> FALSE,             \* a frame has gone through the pipeline
     odd |-> FALSE,             \* the number of frames that have is odd
     open |-> FALSE,            \* speechStart was emitted, and no turnEnd since
     quiet |-> FALSE]           \* the last frame was below the silence threshold

\* What a caller of extract() has seen.
FhInit ==
    [n |-> 0,                   \* extract() calls
     silent |-> 0,              \* how many of the most recent frames were, without a gap,
                                \* of energy < silenceThreshold
     energy |-> 0,              \* the energy of the last frame
     frameLen |-> 0,            \* its length in samples
     freq |-> 0,                \* its frequency in Hz when it is a pure sine, else 0
     pitch |-> 0]               \* the pitch extract() returned for it

MhInit ==
    [calls |-> 0,               \* predict() calls since load()
     total |-> 0,               \* predict() calls since construction
     ret |-> "none",            \* the last predict() call since load(): "null" returned,
                                \* "pending" in runInference, "inferred" or "fallback" returned
     adds |-> 0,                \* frames added since construction or the last dispose()
     log |-> <<>>,              \* the energies of the last CONTEXT_FRAMES of them, oldest first
     level |-> 0,               \* the energy of the last frame
     load |-> "new",            \* the last of load() and dispose(): "new" (neither yet),
                                \* "ok", "failed" (load() left no session) or "disposed"
     probs |-> <<>>,            \* what session.run resolved with at the last inference
     result |-> NoResult,       \* what the last predict() call returned, NoResult: null
     failed |-> 0]              \* the predict() call since load() whose inference failed,
                                \* 0 when the last inference did not fail

----------------------------------------------------------------------------
\* Harness: one TurnDetector driven by process() and reset() calls

\* tests/detector.test.ts, "emits turnEnd when pause exceeds tolerance"
PauseScript ==
    << [label |-> "speaking",       confidence |-> 90, timestamp |-> 0],
       [label |-> "thinking_pause", confidence |-> 80, timestamp |-> 500],
       [label |-> "thinking_pause", confidence |-> 80, timestamp |-> 1600] >>

CountEvents(count, out) ==
    [t \in EventTypes |-> count[t] + Cardinality({i \in 1..Len(out) : out[i].type = t})]

TDInit ==
    /\ sensitivity \in Sensitivities
    /\ pauseTolerance \in Tolerances
    /\ det = DetectorInit
    /\ tdN = 0
    /\ tdResets = 0
    /\ tdIn = NoResult
    /\ tdOut = <<>>
    /\ tdCount = [t \in EventTypes |-> 0]
    /\ tdAllSpeaking = TRUE
    /\ tdScript = 0
    /\ listening = FALSE
    /\ processing = FALSE
    /\ sampleBuffer = <<>>
    /\ sampleBufferCap = InitialCapacity
    /\ inflight = {}
    /\ starts = [loading |-> 0, capturing |-> 0]
    /\ audio = [callback |-> FALSE, processor |-> FALSE, leaked |-> 0]
    /\ fe = FeInit
    /\ mdl = ModelInit
    /\ vad = VadInit
    /\ now = StartClock
    /\ predicted = <<>>
    /\ processed = <<>>
    /\ hist = HistInit
    /\ twin = Step(DetectorInit, <<>>)
    /\ ir = IrInit
    /\ listeners = ListenersInit
    /\ calls = CallsInit
    /\ mh = MhInit
    /\ vh = VhInit
    /\ fh = FhInit
    /\ ph = PhInit
    /\ eh = EhInit

TDProcess ==
    /\ tdN < MaxInputs
    /\ \E l \in Labels, c \in Confs, t \in Times :
         LET r == [label |-> l, confidence |-> c, timestamp |-> t]
             s == Process(det, r, sensitivity, pauseTolerance)
         IN /\ det' = s.det
            /\ tdIn' = r
            /\ tdOut' = s.out
            /\ twin' = Process(twin.det, r, sensitivity, pauseTolerance)
            /\ tdCount' = CountEvents(tdCount, s.out)
            /\ eh' = Seen(eh, s.out)
            /\ tdAllSpeaking' = (tdAllSpeaking /\ l = "speaking")
            /\ tdScript' = IF tdResets = 0 /\ tdScript = tdN /\ tdN < Len(PauseScript)
                              /\ r = PauseScript[tdN + 1]
                           THEN tdN + 1 ELSE tdScript
    /\ tdN' = tdN + 1
    /\ UNCHANGED <<sensitivity, pauseTolerance, tdResets, uVars, ir, listeners, calls, mh, vh, fh, ph>>

TDReset ==
    /\ tdResets < MaxResets
    /\ det' = DetectorReset(det)
    /\ tdResets' = tdResets + 1
    /\ twin' = Step(DetectorInit, <<>>)
    /\ tdIn' = NoResult
    /\ tdOut' = <<>>
    /\ UNCHANGED <<sensitivity, pauseTolerance, tdN, tdCount, tdAllSpeaking, tdScript, uVars,
                   ir, listeners, calls, mh, vh, fh, ph, eh>>

TDNext == TDProcess \/ TDReset

SpecTD == TDInit /\ [][TDNext]_vars

\* A process() call on a result with label l has just been made.
Processed(l) == tdN' = tdN + 1 /\ tdIn'.label = l

----------------------------------------------------------------------------
C7_PauseScriptTurnEnd ==
    (sensitivity = 50 /\ pauseTolerance = 1000 /\ tdResets = 0 /\ tdN = 3 /\ tdScript = 3) =>
        /\ tdCount["turnEnd"] = 1
        /\ tdOut = <<[type |-> "turnEnd", confidence |-> 80, duration |-> 1600]>>

C10_PauseBecomesTurnEnd ==
    [][(Processed("thinking_pause") /\ det.state = "paused") =>
        IF tdIn'.timestamp - det.pauseStart >= pauseTolerance
        THEN /\ tdOut' = <<[type |-> "turnEnd", confidence |-> tdIn'.confidence,
                            duration |-> tdIn'.timestamp - det.speakStart]>>
             /\ det'.state = "idle"
        ELSE /\ tdOut' = <<>>
             /\ det'.state = "paused"
             /\ det'.pauseStart = det.pauseStart]_vars

C10_Witness ==
    /\ tdIn.label = "thinking_pause" /\ tdIn.confidence < sensitivity
    /\ Len(tdOut) = 1 /\ tdOut[1].type = "turnEnd"
    /\ tdOut[1].duration = tdIn.timestamp - det.speakStart
    /\ det.state = "idle"

----------------------------------------------------------------------------
\* Utterance (the orchestrator)
\*
\* A processFrames pass runs without interruption from one real suspension to
\* the next: awaiting a predict() that only buffers a frame or falls back to
\* EnergyVAD resumes in a microtask, before any audio callback or timer can
\* run, so such a stretch is one step here.  A pass is in flight between steps
\* only while session.run is pending.  start(), stop() and the audio callback
\* are calls made from tasks.

\* if (this.processing) return
Reentrant_Never(flag) == FALSE

Reentrant(flag) == flag

\* if (result)
IsFresh_Always(r) == TRUE

IsFresh(r) == r.label # "none"

\* The state a pass works on.
Machine ==
    [buf |-> sampleBuffer, fe |-> fe, mdl |-> mdl, vad |-> vad, det |-> det,
     predicted |-> predicted, processed |-> processed, hist |-> hist,
     threw |-> FALSE]           \* detector.process threw in this run of the loop

\* The number of leading places at which two logs agree.
RECURSIVE CommonPrefix(_, _)
CommonPrefix(p, q) ==
    IF p = <<>> \/ q = <<>> THEN 0
    ELSE IF Head(p) # Head(q) THEN 0
    ELSE 1 + CommonPrefix(Tail(p), Tail(q))

\* The state a pass leaves, and the step's history given the passes then in flight.
Install(M, passes) ==
    \E k \in {CommonPrefix(M.predicted, M.processed)} :
    /\ sampleBuffer' = M.buf
    /\ fe' = M.fe
    /\ mdl' = M.mdl
    /\ vad' = M.vad
    /\ det' = M.det
    /\ predicted' = SubSeq(M.predicted, k + 1, Len(M.predicted))
    /\ processed' = SubSeq(M.processed, k + 1, Len(M.processed))
    /\ hist' = [M.hist EXCEPT !.matched = @ + k, !.dirty = @ /\ passes # {}]

\* processFrames when detector.process throws (a listener threw in emit): the
\* exception leaves the loop before the buffer is advanced
AfterThrow(M) == [M EXCEPT !.threw = TRUE, !.hist.threw = @ + 1]

\* predict() returned r (null: NoResult): lines 236-246 of processFrames
AfterResult(M, r) ==
    IF IsFresh(r)
    THEN LET s == Process(M.det, r, sensitivity, pauseTolerance)
             e == Emit(listeners, s.out, Throwing)
             M1 == [M EXCEPT !.det = IF e.threw THEN Unwind(M.det, s) ELSE s.det,
                             !.processed = Append(@, r),
                             !.hist.nProcessed = @ + 1,
                             !.hist.nEvents = @ + Len(s.out)]
         IN IF e.threw THEN AfterThrow(M1) ELSE [M1 EXCEPT !.buf = Advance(@)]
    ELSE [M EXCEPT !.buf = Advance(@)]

\* The while loop of processFrames at time t, up to the end of the pass
\* (susp = <<>>) or to an await of session.run (susp = the pass's locals).
RECURSIVE RunLoop(_, _)
RunLoop(M, t) ==
    IF M.threw \/ BufLen(M.buf) < FrameLength
    THEN [m |-> M, susp |-> <<>>]
    ELSE LET energy == ComputeEnergy(M.buf)
             M1 == [M EXCEPT !.fe = Extract(@, energy), !.hist.extracted = @ + 1]
         IN IF ~M1.mdl.session
            THEN LET v == VadClassify(M1.vad, energy, t, sensitivity)
                 IN RunLoop(AfterResult([M1 EXCEPT !.vad = v.vad,
                                                   !.predicted = Append(@, v.result)],
                                        v.result), t)
            ELSE LET m1 == AddFrame(M1.mdl, energy)
                     since == m1.framesSinceInference + 1
                 IN IF since >= INFERENCE_INTERVAL /\ m1.framesBuffered >= CONTEXT_FRAMES
                    THEN [m |-> [M1 EXCEPT !.mdl = [m1 EXCEPT !.framesSinceInference = 0]],
                          susp |-> <<[energy |-> energy, recentSum |-> RecentSum(m1)]>>]
                    ELSE RunLoop(AfterResult(
                                   [M1 EXCEPT !.mdl = [m1 EXCEPT !.framesSinceInference = since],
                                              !.hist.sawNull = TRUE],
                                   NoResult), t)

\* The pass p as it is after a run of the loop.
Suspended(id, run) == [id |-> id, energy |-> run.susp[1].energy, recentSum |-> run.susp[1].recentSum]

\* new Utterance(options): every field but the listeners of the detector
Constructed ==
    /\ sensitivity = DefaultSensitivity
    /\ pauseTolerance = DefaultPauseTolerance
    /\ det = DetectorInit
    /\ tdN = 0
    /\ tdResets = 0
    /\ tdIn = NoResult
    /\ tdOut = <<>>
    /\ tdCount = [t \in EventTypes |-> 0]
    /\ tdAllSpeaking = TRUE
    /\ tdScript = 0
    /\ listening = FALSE
    /\ processing = FALSE
    /\ sampleBuffer = <<>>
    /\ sampleBufferCap = InitialCapacity
    /\ inflight = {}
    /\ starts = [loading |-> 0, capturing |-> 0]
    /\ audio = [callback |-> FALSE, processor |-> FALSE, leaked |-> 0]
    /\ fe = FeInit
    /\ mdl = ModelInit
    /\ vad = VadInit
    /\ now = StartClock
    /\ predicted = <<>>
    /\ processed = <<>>
    /\ hist = HistInit
    /\ twin = Step(DetectorInit, <<>>)
    /\ ir = IrInit
    /\ calls = CallsInit
    /\ mh = MhInit
    /\ vh = VhInit
    /\ fh = FhInit
    /\ ph = PhInit
    /\ eh = EhInit

Init ==
    /\ Constructed
    /\ listeners = ListenersInit

\* start(), up to the await of model.load
StartCall ==
    /\ ~listening
    /\ hist.nStartCalls < MaxStartCalls
    /\ starts' = [starts EXCEPT !.loading = @ + 1]
    /\ hist' = [hist EXCEPT !.nStartCalls = @ + 1,
                            !.overlapped = @ \/ starts.loading + starts.capturing > 0]
    /\ UNCHANGED <<tdVars, xVars, listening, processing, sampleBuffer, sampleBufferCap, inflight,
                   audio, fe, mdl, vad, now, predicted, processed>>

\* start() resumes after model.load: lines 193-211, up to the await of audio.start
Loaded(ok) ==
    /\ starts.loading > 0
    /\ starts' = [loading |-> starts.loading - 1, capturing |-> starts.capturing + 1]
    /\ mdl' = [mdl EXCEPT !.session = ok]
    /\ sampleBuffer' = <<>>
    /\ processing' = FALSE
    /\ audio' = [audio EXCEPT !.callback = TRUE]
    /\ hist' = [hist EXCEPT !.dirty = (inflight # {}), !.delivered = 0, !.extracted = 0]
    /\ UNCHANGED <<tdVars, xVars, listening, sampleBufferCap, inflight, fe, vad, now,
                   predicted, processed>>

LoadOk == Loaded(TRUE)

\* model.load caught a failure: the session is null and start() goes on
LoadFail == Loaded(FALSE)

\* audio.start resolved: the processor is connected, and start() sets listening
CaptureOk ==
    /\ starts.capturing > 0
    /\ starts' = [starts EXCEPT !.capturing = @ - 1]
    /\ audio' = [audio EXCEPT !.processor = TRUE,
                              !.leaked = IF audio.processor THEN @ + 1 ELSE @]
    /\ listening' = TRUE
    /\ UNCHANGED <<tdVars, xVars, processing, sampleBuffer, sampleBufferCap, inflight, fe, mdl, vad,
                   now, predicted, processed, hist>>

\* start() sets listening although audio.start rejected.
ListeningAfterReject_Set(l) == TRUE

\* start(): listening when the await of audio.start throws
ListeningAfterReject(l) == l

\* audio.start rejected (getUserMedia): start() rejects
CaptureFail ==
    /\ starts.capturing > 0
    /\ starts' = [starts EXCEPT !.capturing = @ - 1]
    /\ listening' = ListeningAfterReject(listening)
    /\ hist' = [hist EXCEPT !.rejected = @ + 1]
    /\ UNCHANGED <<tdVars, xVars, processing, sampleBuffer, sampleBufferCap, inflight,
                   audio, fe, mdl, vad, now, predicted, processed>>

\* stop()
Stop ==
    /\ listening
    /\ audio' = [audio EXCEPT !.processor = FALSE]
    /\ mdl' = Dispose(mdl)
    /\ vad' = VadReset(vad)
    /\ det' = DetectorReset(det)
    /\ sampleBuffer' = <<>>
    /\ listening' = FALSE
    /\ hist' = [hist EXCEPT !.delivered = 0, !.extracted = 0]
    /\ UNCHANGED <<xVars, sensitivity, pauseTolerance, tdN, tdResets, tdIn, tdOut, tdCount,
                   tdAllSpeaking, tdScript, processing, sampleBufferCap, inflight, starts, fe,
                   now, predicted, processed>>

\* The audio callback with a chunk of amplitude a, and the processFrames call it makes.
Chunk ==
    /\ audio.callback
    /\ audio.processor \/ audio.leaked > 0
    /\ hist.nChunks < MaxChunks
    /\ \E a \in Amplitudes :
         LET len == BufLen(sampleBuffer)
             M == [Machine EXCEPT !.buf = BufAppend(@, a, ChunkSize),
                                  !.hist.nChunks = @ + 1,
                                  !.hist.delivered = @ + ChunkSize]
         IN /\ sampleBufferCap' = IF len + ChunkSize > sampleBufferCap
                                  THEN (len + ChunkSize) * 2 ELSE sampleBufferCap
            /\ now' = now + ChunkMs
            /\ IF Reentrant(processing)
               THEN /\ Install(M, inflight)
                    /\ UNCHANGED <<processing, inflight>>
               ELSE \E id \in {hist.passesStarted + 1} :
                    \E run \in {RunLoop([M EXCEPT !.hist.passesStarted = id], now + ChunkMs)} :
                       /\ inflight' = IF run.susp = <<>> THEN inflight
                                      ELSE inflight \cup {Suspended(id, run)}
                       /\ Install(run.m, inflight')
                       /\ processing' = (run.susp # <<>>)
    /\ UNCHANGED <<xVars, sensitivity, pauseTolerance, tdN, tdResets, tdIn, tdOut, tdCount,
                   tdAllSpeaking, tdScript, listening, starts, audio>>

\* predict() of pass p returned r; the pass goes on from line 236.
Resume(p, M, r) ==
    \E run \in {RunLoop(AfterResult([M EXCEPT !.predicted = Append(@, r)], r), now)} :
       /\ inflight' = IF run.susp = <<>> THEN inflight \ {p}
                      ELSE (inflight \ {p}) \cup {Suspended(p.id, run)}
       /\ Install(run.m, inflight')
       /\ processing' = IF run.susp = <<>> THEN FALSE ELSE processing
       /\ UNCHANGED <<xVars, sensitivity, pauseTolerance, tdN, tdResets, tdIn, tdOut, tdCount,
                      tdAllSpeaking, tdScript, listening, sampleBufferCap, starts, audio, now>>

\* session.run of a pass in flight resolves
ResolveOk ==
    \E p \in inflight, probs \in ProbVecs :
        LET inf == Infer(mdl, p.recentSum, probs, now)
        IN Resume(p, [Machine EXCEPT !.mdl = inf.mdl, !.hist.sawInferred = TRUE], inf.result)

\* session.run of a pass in flight rejects: predict() falls back to EnergyVAD
ResolveFail ==
    \E p \in inflight :
        LET v == VadClassify(vad, p.energy, now, sensitivity)
        IN Resume(p, [Machine EXCEPT !.vad = v.vad], v.result)

Next ==
    \/ StartCall
    \/ LoadOk
    \/ LoadFail
    \/ CaptureOk
    \/ CaptureFail
    \/ Stop
    \/ Chunk
    \/ ResolveOk
    \/ ResolveFail

Spec == Init /\ [][Next]_vars

----------------------------------------------------------------------------
\* C1: in a listening session in which no start() has reset the guard while a
\* pass was in flight, at most one processFrames pass is in flight, and a
\* chunk that arrives while a pass is in flight is only appended to the sample
\* buffer: no pass starts, the pass in flight and every component stay as
\* they were.
C1_OnePassPerSession ==
    [][/\ (listening' /\ ~hist'.dirty) => Cardinality(inflight') <= 1
       /\ (listening /\ ~hist.dirty /\ inflight # {} /\ hist'.nChunks > hist.nChunks) =>
             /\ hist'.passesStarted = hist.passesStarted
             /\ inflight' = inflight
             /\ BufLen(sampleBuffer') = BufLen(sampleBuffer) + ChunkSize
             /\ <<fe', mdl', vad', det', processing'>> = <<fe, mdl, vad, det, processing>>]_vars

C1_Witness ==
    /\ listening /\ ~hist.dirty /\ hist.nStartCalls = 1
    /\ Cardinality(inflight) = 1
    /\ hist.nChunks > hist.passesStarted
    /\ BufLen(sampleBuffer) >= ChunkSize

\* C2 (as claimed): when start() calls do not overlap, a processFrames pass
\* starts only when no pass is in flight, restarts included: a chunk delivered
\* while an earlier pass is suspended in predict() starts no second pass.
C2_OnePassAcrossRestarts ==
    [][(~hist.overlapped /\ hist'.passesStarted > hist.passesStarted) => inflight = {}]_vars

\* C3: the results passed to TurnDetector.process are the non-null results
\* predict() returned, in the same order, each once; a null is never passed.
\* (Both logs are kept with their common prefix removed.)
C3_ProcessedEqualsPredicted ==
    predicted = processed

C3_Witness ==
    /\ hist.sawNull /\ hist.sawInferred
    /\ hist.matched >= 2 /\ hist.nProcessed = hist.matched
    /\ predicted = processed

\* stop() has returned and no start() has been called since.
Stopped ==
    ~listening /\ hist.nStartCalls > 0 /\ starts.loading = 0 /\ starts.capturing = 0

\* C4 (as claimed): when start() calls do not overlap, from stop() to the next
\* start() no result is passed to TurnDetector.process, no event is emitted
\* and the detector stays in its reset state.
C4_NothingAfterStop ==
    [][(Stopped /\ ~hist.overlapped) =>
          /\ hist'.nProcessed = hist.nProcessed
          /\ hist'.nEvents = hist.nEvents
          /\ det' = DetectorInit]_vars

\* C5 (as claimed): stop() with no pass in flight leaves the detector, the
\* classifier, the EnergyVAD, the sample buffer and the FeatureExtractor in
\* their post-construction state.
C5_StopResetsAll ==
    [][(listening /\ ~listening' /\ inflight = {}) =>
          /\ det' = DetectorInit
          /\ mdl' = ModelInit
          /\ vad' = VadInit
          /\ sampleBuffer' = <<>>
          /\ fe' = FeInit]_vars

----------------------------------------------------------------------------
\* Harness: one TurnDetector fed results whose timestamps never decrease

MaxBurstInputs == 6     \* process() calls of one run of the burst harness

StartTimes == {0, StartClock}   \* timestamp of the first result: a clock from 0, or the epoch
Deltas == {100, 300, 3000}                  \* time from one result to the next
\* label and confidence of a result
BurstInputs ==
    { <<"interrupt_intent", 80>>, <<"interrupt_intent", 30>>, <<"speaking", 80>>,
      <<"thinking_pause", 80>>, <<"turn_complete", 80>> }

\* Two bursts of three interrupt_intent results, the second burst starting 500 ms
\* after the first: the confidence of each result and the time since the one before.
BurstScript ==
    << [confidence |-> 80, delta |-> 0],   [confidence |-> 80, delta |-> 100],
       [confidence |-> 80, delta |-> 100], [confidence |-> 80, delta |-> 300],
       [confidence |-> 80, delta |-> 100], [confidence |-> 80, delta |-> 100] >>

\* The result counts towards an interrupt: interrupt_intent at or above the sensitivity.
Qualifies(r) == r.label = "interrupt_intent" /\ r.confidence >= sensitivity

\* The interrupt events among the events of one process() call.
Interrupts(out) == {i \in 1..Len(out) : out[i].type = "interrupt"}

IRInit ==
    /\ sensitivity = DefaultSensitivity
    /\ pauseTolerance = DefaultPauseTolerance
    /\ det = DetectorInit
    /\ tdN = 0
    /\ tdResets = 0
    /\ tdIn = NoResult
    /\ tdOut = <<>>
    /\ tdCount = [t \in EventTypes |-> 0]
    /\ tdAllSpeaking = TRUE
    /\ tdScript = 0
    /\ listening = FALSE
    /\ processing = FALSE
    /\ sampleBuffer = <<>>
    /\ sampleBufferCap = InitialCapacity
    /\ inflight = {}
    /\ starts = [loading |-> 0, capturing |-> 0]
    /\ audio = [callback |-> FALSE, processor |-> FALSE, leaked |-> 0]
    /\ fe = FeInit
    /\ mdl = ModelInit
    /\ vad = VadInit
    /\ now \in StartTimes
    /\ predicted = <<>>
    /\ processed = <<>>
    /\ hist = HistInit
    /\ twin = Step(DetectorInit, <<>>)
    /\ ir = IrInit
    /\ listeners = ListenersInit
    /\ calls = CallsInit
    /\ mh = MhInit
    /\ vh = VhInit
    /\ fh = FhInit
    /\ ph = PhInit
    /\ eh = EhInit

\* process(result) with the timestamp of the clock, delta after the result before
IRProcess ==
    /\ ir.n < MaxBurstInputs
    /\ \E in \in BurstInputs, delta \in (IF ir.n = 0 THEN {0} ELSE Deltas) :
         LET l == in[1]
             c == in[2]
             r == [label |-> l, confidence |-> c, timestamp |-> now + delta]
             s == Process(det, r, sensitivity, pauseTolerance)
             fired == Interrupts(s.out)
         IN /\ now' = r.timestamp
            /\ det' = s.det
            /\ tdIn' = r
            /\ tdOut' = s.out
            /\ tdCount' = CountEvents(tdCount, s.out)
            /\ ir' = [n |-> ir.n + 1,
                      count |-> ir.count + Cardinality(fired),
                      last |-> IF fired # {} THEN r.timestamp ELSE ir.last,
                      qual |-> IF Qualifies(r) THEN ir.qual + 1 ELSE 0,
                      script |-> IF /\ ir.script = ir.n
                                    /\ ir.n < Len(BurstScript)
                                    /\ l = "interrupt_intent"
                                    /\ [confidence |-> c, delta |-> delta] = BurstScript[ir.n + 1]
                                 THEN ir.n + 1 ELSE ir.script]
    /\ tdN' = tdN + 1
    /\ UNCHANGED <<sensitivity, pauseTolerance, tdResets, tdAllSpeaking, tdScript, twin,
                   listening, processing, sampleBuffer, sampleBufferCap, inflight, starts,
                   audio, fe, mdl, vad, predicted, processed, hist, listeners, calls, mh, vh, fh, ph, eh>>

IRNext == IRProcess

SpecIR == IRInit /\ [][IRNext]_vars

\* C11: when the timestamps of the results never decrease, an interrupt event
\* is emitted at least INTERRUPT_COOLDOWN_MS after the interrupt event before
\* it, so any two interrupt events are at least 3000 ms apart.
C11_InterruptCooldown ==
    [][(ir'.n = ir.n + 1 /\ ir.last >= 0) =>
          \A i \in Interrupts(tdOut') :
              tdOut'[i].timestamp - ir.last >= INTERRUPT_COOLDOWN_MS]_vars

C11_Witness ==
    /\ ir.count = 2
    /\ Interrupts(tdOut) # {}
    /\ ir.last = now /\ ir.n = 6

\* C12 (as claimed): after two bursts of three interrupt_intent results at
\* confidence 0.8, the second burst 500 ms after the first, exactly one
\* interrupt event has been emitted, whatever the timestamp of the first result.
C12_TwoBurstsOneInterrupt ==
    (ir.script = Len(BurstScript) /\ ir.n = Len(BurstScript)) => ir.count = 1

\* C13 (as claimed): an interrupt event is emitted only when the three most
\* recent results are all interrupt_intent with confidence >= sensitivity.
C13_InterruptNeedsThreeInARow ==
    Interrupts(tdOut) # {} => ir.qual >= INTERRUPT_DEBOUNCE

----------------------------------------------------------------------------
\* Harness: one TurnDetector with listeners, driven by on(), off() and process()

MaxRegistered == 3      \* listeners registered at one time, over all events

ListenerIds == {"f", "g", "h"}
ListenedEvents == {"speechStart", "turnEnd"}
RECURSIVE Registered(_, _)
Registered(ls, es) ==
    IF es = {} THEN 0
    ELSE LET e == CHOOSE x \in es : TRUE IN Len(ls[e]) + Registered(ls, es \ {e})

LInit ==
    /\ Init

\* on(e, l), of a new listener or of one that is registered already
LOn ==
    /\ \E e \in ListenedEvents, l \in ListenerIds :
         /\ l \in Range(listeners[e]) \/ Registered(listeners, EventTypes) < MaxRegistered
         /\ listeners' = On(listeners, e, l)
    /\ UNCHANGED <<tdVars, uVars, twin, ir, calls, mh, vh, fh, ph, eh>>

\* off(e, l), of a registered listener or of one that is not
LOff ==
    /\ \E e \in ListenedEvents, l \in ListenerIds :
         /\ listeners' = Off(listeners, e, l)
    /\ UNCHANGED <<tdVars, uVars, twin, ir, calls, mh, vh, fh, ph, eh>>

\* process(result) at the time of the clock; the caller sees the exception of a listener
LProcess ==
    /\ tdN < MaxInputs
    /\ \E in \in BurstInputs :
         LET r == [label |-> in[1], confidence |-> in[2], timestamp |-> now]
             s == Process(det, r, sensitivity, pauseTolerance)
             e == Emit(listeners, s.out, Throwing)
         IN /\ det' = IF e.threw THEN Unwind(det, s) ELSE s.det
            /\ tdIn' = r
            /\ tdOut' = s.out
            /\ tdCount' = CountEvents(tdCount, s.out)
            /\ calls' = e
    /\ tdN' = tdN + 1
    /\ now' = now + 100
    /\ UNCHANGED <<sensitivity, pauseTolerance, tdResets, tdAllSpeaking, tdScript, twin,
                   listening, processing, sampleBuffer, sampleBufferCap, inflight, starts,
                   audio, fe, mdl, vad, predicted, processed, hist, ir, listeners, mh, vh, fh, ph, eh>>

LNext == LOn \/ LOff \/ LProcess

SpecL == LInit /\ [][LNext]_vars

\* A process() call has just emitted an event.
Emitted == tdN' = tdN + 1 /\ calls'.event # "none"

\* C14 (as claimed): every listener registered for an event is invoked at
\* each emission of that event, also when another of its listeners throws.
C14_ThrowDoesNotStopOthers ==
    [][Emitted => Range(listeners[calls'.event]) \subseteq Range(calls'.invoked)]_vars

C16_RegistrationOrder ==
    [][Emitted => calls'.invoked = listeners[calls'.event]]_vars

\* C17: after reset() the detector is in its post-construction state: for
\* every sequence of results processed after the reset, and whatever was
\* processed before it, each call emits the events that a detector freshly
\* constructed with the same sensitivity and pauseTolerance emits, and leaves
\* the same fields.
C17_ResetEqualsFresh ==
    tdResets > 0 => (tdOut = twin.out /\ det = twin.det)

C17_Witness ==
    /\ tdResets = 1 /\ tdN = 4
    /\ tdCount["speechStart"] = 2
    /\ tdOut = <<[type |-> "speechStart", timestamp |-> tdIn.timestamp]>>
    /\ twin.out = tdOut

----------------------------------------------------------------------------
\* Harness: one ONNXModel driven by load(), predict() and dispose(), each
\* predict() awaited before the next call

MaxPredictCalls == 120  \* predict() calls of one run of the classifier harness

\* Frame energies: the first 90 frames after construction or dispose() are
\* silent (energy 0); after that the energy is 0.01, 0.02, 0.06, 0.07 or 0.08
\* and may change every RECENT frames.
Levels == {100, 200, 600, 700, 800}

MayChange(adds) == adds % RECENT = 0 /\ adds >= CONTEXT_FRAMES - RECENT

\* Frame energies while there is no session: silent or 0.01, changing every
\* RECENT calls.
FallbackLevels == {0, 100}

\* The last n elements of a sequence.
LastN(q, n) == IF Len(q) <= n THEN q ELSE SubSeq(q, Len(q) - n + 1, Len(q))

\* predict() takes the classifier's path.
HasSession_Always(m) == TRUE

\* predict(): this.session && this.ort
HasSession(m) == m.session

\* A failed session.run drops the session.
OnRunFailure_DropsSession(m) == [m EXCEPT !.session = FALSE]

\* predict(): what the catch around runInference leaves of the classifier
OnRunFailure(m) == m

MInit ==
    /\ Init

\* load(path) resolves with a session
MLoad ==
    /\ ~mdl.session
    /\ inflight = {}
    /\ mdl' = [mdl EXCEPT !.session = TRUE]
    /\ mh' = [mh EXCEPT !.calls = 0, !.ret = "none", !.load = "ok", !.failed = 0,
                        !.result = NoResult]
    /\ UNCHANGED <<tdVars, listening, processing, sampleBuffer, sampleBufferCap, inflight,
                   starts, audio, fe, vad, now, predicted, processed, hist,
                   twin, ir, listeners, calls, vh, fh, ph, eh>>

\* load(path) resolves after the import, the fetch or the session creation
\* failed: session = null
MLoadFail ==
    /\ ~mdl.session
    /\ inflight = {}
    /\ mdl' = [mdl EXCEPT !.session = FALSE]
    /\ mh' = [mh EXCEPT !.calls = 0, !.ret = "none", !.load = "failed", !.failed = 0,
                        !.result = NoResult]
    /\ UNCHANGED <<tdVars, listening, processing, sampleBuffer, sampleBufferCap, inflight,
                   starts, audio, fe, vad, now, predicted, processed, hist,
                   twin, ir, listeners, calls, vh, fh, ph, eh>>

\* predict(features) on a frame of energy e, one hop after the frame before
MPredict ==
    /\ HasSession(mdl)
    /\ inflight = {}
    /\ mh.total < MaxPredictCalls
    /\ \E e \in (IF MayChange(mh.adds) THEN Levels
                 ELSE IF mh.adds < CONTEXT_FRAMES - RECENT THEN {0} ELSE {mh.level}) :
       \E ps \in {PredictStep(mdl, e)} :
         /\ mdl' = ps.mdl
         /\ inflight' = IF ps.infer
                        THEN {[id |-> mh.calls + 1, energy |-> e, recentSum |-> RecentSum(ps.mdl)]}
                        ELSE {}
         /\ mh' = [mh EXCEPT !.calls = @ + 1,
                             !.total = @ + 1,
                             !.ret = IF ps.infer THEN "pending" ELSE "null",
                             !.adds = @ + 1,
                             !.log = LastN(Append(@, e), CONTEXT_FRAMES),
                             !.level = e,
                             !.result = NoResult]
    /\ now' = now + 10
    /\ UNCHANGED <<tdVars, listening, processing, sampleBuffer, sampleBufferCap,
                   starts, audio, fe, vad, predicted, processed, hist,
                   twin, ir, listeners, calls, vh, fh, ph, eh>>

\* predict(features) without a session: fallback.classify(features)
MFallback ==
    /\ ~HasSession(mdl)
    /\ inflight = {}
    /\ mh.total < MaxPredictCalls
    /\ \E e \in (IF mh.total % RECENT = 0 THEN FallbackLevels ELSE {mh.level}) :
       \E c \in {VadClassify(vad, e, now + 10, sensitivity)} :
         /\ vad' = c.vad
         /\ mh' = [mh EXCEPT !.calls = @ + 1,
                             !.total = @ + 1,
                             !.ret = "fallback",
                             !.level = e,
                             !.result = c.result]
    /\ now' = now + 10
    /\ UNCHANGED <<tdVars, listening, processing, sampleBuffer, sampleBufferCap, inflight,
                   starts, audio, fe, mdl, predicted, processed, hist,
                   twin, ir, listeners, calls, vh, fh, ph, eh>>

\* session.run resolves: runInference returns and predict() returns its result
MResolveOk ==
    /\ \E p \in inflight, probs \in ProbVecs :
       \E inf \in {Infer(mdl, p.recentSum, probs, now)} :
         /\ mdl' = inf.mdl
         /\ inflight' = inflight \ {p}
         /\ mh' = [mh EXCEPT !.ret = "inferred", !.probs = probs, !.result = inf.result,
                             !.failed = 0]
    /\ UNCHANGED <<tdVars, listening, processing, sampleBuffer, sampleBufferCap,
                   starts, audio, fe, vad, now, predicted, processed, hist,
                   twin, ir, listeners, calls, vh, fh, ph, eh>>

\* session.run rejects: predict() returns fallback.classify(features)
MResolveFail ==
    /\ \E p \in inflight :
       \E c \in {VadClassify(vad, p.energy, now, sensitivity)} :
         /\ vad' = c.vad
         /\ inflight' = inflight \ {p}
         /\ mh' = [mh EXCEPT !.ret = "fallback", !.result = c.result, !.failed = p.id]
    /\ mdl' = OnRunFailure(mdl)
    /\ UNCHANGED <<tdVars, listening, processing, sampleBuffer, sampleBufferCap,
                   starts, audio, fe, now, predicted, processed, hist,
                   twin, ir, listeners, calls, vh, fh, ph, eh>>

\* dispose()
MDispose ==
    /\ mdl.session
    /\ mdl' = Dispose(mdl)
    /\ vad' = VadReset(vad)
    /\ mh' = [mh EXCEPT !.adds = 0, !.log = <<>>, !.level = 0, !.load = "disposed"]
    /\ UNCHANGED <<tdVars, listening, processing, sampleBuffer, sampleBufferCap, inflight,
                   starts, audio, fe, now, predicted, processed, hist,
                   twin, ir, listeners, calls, vh, fh, ph, eh>>

MNext == MLoad \/ MLoadFail \/ MPredict \/ MFallback \/ MResolveOk \/ MResolveFail \/ MDispose

SpecM == MInit /\ [][MNext]_vars

\* The k-th predict() call since load() is one that runs the model.
InferenceCall(k) == k >= CONTEXT_FRAMES /\ (k - CONTEXT_FRAMES) % INFERENCE_INTERVAL = 0

\* C18: with a model loaded, the k-th predict() call since load() returns null
\* unless k >= 100 and (k - 100) mod 10 = 0, and in that case it runs the
\* model and returns a result (of the inference, or of the fallback).
C18_InferenceSchedule ==
    (mdl.session /\ mh.calls > 0) =>
        /\ mh.ret = "null" <=> ~InferenceCall(mh.calls)
        /\ mh.ret \in {"pending", "inferred", "fallback"} <=> InferenceCall(mh.calls)

C18_Witness ==
    mdl.session /\ mh.calls = 110 /\ mh.ret = "inferred" /\ mh.total = 110

\* C19: the write cursor is (frames added) mod 100, framesBuffered is
\* min(frames added, 100), and the window handed to the model at an inference
\* is the 100 most recently added frames, oldest first.
C19_RingBuffer ==
    /\ mdl.bufferIdx = mh.adds % CONTEXT_FRAMES
    /\ mdl.framesBuffered = Min(mh.adds, CONTEXT_FRAMES)
    /\ (mdl.session /\ mh.ret = "pending") =>
          /\ Len(mh.log) = CONTEXT_FRAMES
          /\ \A i \in 0..(CONTEXT_FRAMES - 1) : Unrolled(mdl, i) = mh.log[i + 1]

C19_Witness ==
    /\ mdl.session /\ mh.ret = "pending"
    /\ mh.adds = 110 /\ mdl.bufferIdx = 10
    /\ mh.log[80] # mh.log[90] /\ mh.log[90] # mh.log[100]

RECURSIVE SumSeqFrom(_, _)
SumSeqFrom(q, i) == IF i > Len(q) THEN 0 ELSE q[i] + SumSeqFrom(q, i + 1)

\* The sum of the energies of the RECENT frames added last.
RecentOfLog == LET q == LastN(mh.log, RECENT) IN
    IF q = <<>> THEN 0 ELSE SumSeqFrom(q, 1)

\* C20: silenceMode changes only when an inference succeeds (dispose() apart,
\* which clears it): it goes from false to true exactly when the mean energy of
\* the RECENT last frames is < 0.02, from true to false exactly when that mean
\* is > 0.06, and keeps its value for a mean in [0.02, 0.06].
C20_SilenceHysteresis ==
    [][/\ (mdl'.silenceMode # mdl.silenceMode) =>
             \/ mh.ret = "pending" /\ mh'.ret = "inferred"
             \/ mdl.session /\ ~mdl'.session
       /\ (mdl.session /\ mh.ret = "pending" /\ mh'.ret = "inferred") =>
             /\ (~mdl.silenceMode /\ mdl'.silenceMode)
                   <=> (~mdl.silenceMode /\ RecentOfLog < SILENCE_ENTER_THRESHOLD * RECENT)
             /\ (mdl.silenceMode /\ ~mdl'.silenceMode)
                   <=> (mdl.silenceMode /\ RecentOfLog > SILENCE_EXIT_THRESHOLD * RECENT)]_vars

C20_Witness ==
    /\ mdl.session /\ mh.ret = "inferred"
    /\ mdl.silenceMode /\ mh.level = SILENCE_EXIT_THRESHOLD

\* The label of the largest probability session.run resolved with last.
TopLabel == LABELS[ArgMax(mh.probs)]

\* C21: when silenceMode is true after the hysteresis update of a successful
\* inference, the result is never speaking or interrupt_intent: a top label
\* speaking or interrupt_intent gives thinking_pause with confidence
\* max(p(thinking_pause), 0.7), and a top label thinking_pause or
\* turn_complete is returned as it is, with the model's probability.
C21_SilenceOverride ==
    (mh.ret = "inferred" /\ mdl.silenceMode) =>
        /\ mh.result.label \notin {"speaking", "interrupt_intent"}
        /\ TopLabel \in {"speaking", "interrupt_intent"} =>
              /\ mh.result.label = "thinking_pause"
              /\ mh.result.confidence = Max(mh.probs[2], 70)
        /\ TopLabel \in {"thinking_pause", "turn_complete"} =>
              /\ mh.result.label = TopLabel
              /\ mh.result.confidence = mh.probs[ArgMax(mh.probs)]

C21_Witness ==
    /\ mh.ret = "inferred" /\ mdl.silenceMode /\ mdl.session
    /\ TopLabel = "interrupt_intent"
    /\ mh.result.label = "thinking_pause" /\ mh.result.confidence = 70

\* C22 as stated: a successful inference returns interrupt_intent only if the
\* mean energy of the RECENT last frames is >= 0.08, and a top label
\* interrupt_intent with a mean < 0.08 gives speaking with the model's
\* speaking probability whatever silenceMode is.
C22_GateWhateverSilenceMode ==
    (mdl.session /\ mh.ret = "inferred") =>
        /\ mh.result.label = "interrupt_intent" => RecentOfLog >= 800 * RECENT
        /\ (TopLabel = "interrupt_intent" /\ RecentOfLog < 800 * RECENT) =>
              /\ mh.result.label = "speaking"
              /\ mh.result.confidence = mh.probs[1]

\* C22, amended: a successful inference returns interrupt_intent only if the
\* mean energy of the RECENT last frames is >= 0.08; a top label
\* interrupt_intent with a mean < 0.08 gives speaking with the model's
\* speaking probability when silenceMode is false after the hysteresis update,
\* and thinking_pause with confidence max(p(thinking_pause), 0.7) when it is
\* true.
C22_InterruptGate ==
    (mdl.session /\ mh.ret = "inferred") =>
        /\ mh.result.label = "interrupt_intent" => RecentOfLog >= 800 * RECENT
        /\ (TopLabel = "interrupt_intent" /\ RecentOfLog < 800 * RECENT) =>
              IF mdl.silenceMode
              THEN /\ mh.result.label = "thinking_pause"
                   /\ mh.result.confidence = Max(mh.probs[2], 70)
              ELSE /\ mh.result.label = "speaking"
                   /\ mh.result.confidence = mh.probs[1]

C22_Witness ==
    /\ mdl.session /\ mh.ret = "inferred" /\ ~mdl.silenceMode
    /\ TopLabel = "interrupt_intent" /\ RecentOfLog = 700 * RECENT
    /\ mh.result.label = "speaking" /\ mh.result.confidence = 5

\* C23: load() resolves whatever failed (the import, the fetch, a non-OK
\* response, the session creation), and after a load() that left no session
\* every predict() call returns what EnergyVAD.classify returns for the
\* frame: never null, and never the classifier's result.
C23_FallbackAfterFailedLoad ==
    [][(mh.load = "failed" /\ mh'.total = mh.total + 1) =>
          /\ mh'.load = "failed" /\ ~mdl'.session
          /\ mh'.ret = "fallback"
          /\ mh'.result = VadClassify(vad, mh'.level, now', sensitivity).result
          /\ mh'.result # NoResult
          /\ vad' = VadClassify(vad, mh'.level, now', sensitivity).vad]_vars

C23_Witness ==
    /\ mh.load = "failed" /\ mh.ret = "fallback" /\ mh.calls > CONTEXT_FRAMES
    /\ mh.result.label = "turn_complete"

\* C24: when session.run fails for one window, predict() returns what
\* EnergyVAD.classify returns for the frame, the session stays loaded,
\* silenceMode keeps its value, and the next inference is attempted by the
\* tenth predict() call after the failed one, and by none before it.
C24_RunFailure ==
    [][/\ (mdl.session /\ mh.ret = "pending" /\ mh'.ret = "fallback") =>
             /\ mdl'.session
             /\ mdl'.silenceMode = mdl.silenceMode
             /\ mh'.result = VadClassify(vad, mh.level, now, sensitivity).result
             /\ mh'.result # NoResult
             /\ mh'.failed = mh.calls
       /\ (mdl.session /\ mh.failed > 0 /\ mh'.total = mh.total + 1) =>
             /\ mh'.ret = "pending" <=> mh'.calls = mh.failed + 10
             /\ mh'.ret = "null" <=> mh'.calls < mh.failed + 10]_vars

C24_Witness ==
    /\ mdl.session /\ mdl.silenceMode
    /\ mh.failed = 110 /\ mh.calls = 120 /\ mh.ret = "pending"

\* C25: from dispose() until the next load() the classifier is fully reset:
\* no session, the ring buffer zeroed, the cursor, framesBuffered and
\* framesSinceInference 0 and silenceMode false, also once an inference that
\* was in flight when dispose() was called has resolved.
C25_DisposeStaysReset ==
    mh.load = "disposed" =>
        /\ ~mdl.session
        /\ \A i \in 1..CONTEXT_FRAMES : mdl.frameBuffer[i] = 0
        /\ mdl.bufferIdx = 0
        /\ mdl.framesBuffered = 0
        /\ mdl.framesSinceInference = 0
        /\ ~mdl.silenceMode

----------------------------------------------------------------------------
\* Harness: one EnergyVAD driven by classify() calls

MaxVadCalls == 6    \* classify() calls of one run of the EnergyVAD harness

\* Frame energies 0, 0.004, 0.006 and 0.01: with sensitivity 0.5 the speech
\* threshold is 0.009 and the silence threshold 0.0054, with 0.8 they are
\* 0.0054 and 0.00324.
VadLevels == {0, 40, 60, 100}

\* Date.now() advances by one of these between two calls.
VadDeltas == {10, 400, 800, 2000}

VInit ==
    /\ TDInit

\* classify(features) on a frame of energy e, dt ms after the call before
VClassify ==
    /\ vh.n < MaxVadCalls
    /\ \E e \in VadLevels, dt \in VadDeltas :
       \E c \in {VadClassify(vad, e, now + dt, sensitivity)} :
         /\ vad' = c.vad
         /\ now' = now + dt
         /\ vh' = [n |-> vh.n + 1,
                   quietSince |-> IF vad.isSpeaking /\ 10 * e < 6 * SpeechThreshold(sensitivity)
                                  THEN (IF vh.quietSince = -1 THEN now + dt ELSE vh.quietSince)
                                  ELSE -1,
                   completes |-> IF c.result.label = "turn_complete" THEN vh.completes + 1
                                 ELSE IF c.result.label = "speaking" /\ ~vad.isSpeaking THEN 0
                                 ELSE vh.completes,
                   energy |-> e,
                   result |-> c.result]
    /\ UNCHANGED <<tdVars, listening, processing, sampleBuffer, sampleBufferCap, inflight,
                   starts, audio, fe, mdl, predicted, processed, hist,
                   twin, ir, listeners, calls, mh, fh, ph, eh>>

VNext == VClassify

SpecV == VInit /\ [][VNext]_vars

\* C26: for a classify() call made while isSpeaking: on a frame below the
\* silence threshold, with elapsed the time since the first frame of the run
\* of such frames it belongs to, the result is thinking_pause (0.6) when
\* elapsed < 800 ms and otherwise turn_complete with confidence
\* min(elapsed / 1600, 1), isSpeaking being cleared; on a frame at or above the
\* threshold the result is speaking and the run ends. turn_complete is
\* returned at most once per speech segment.
C26_SilenceTimer ==
    [][(vh'.n = vh.n + 1 /\ vad.isSpeaking) =>
          LET e == vh'.energy
              elapsed == IF vh.quietSince = -1 THEN 0 ELSE now' - vh.quietSince
          IN /\ 10 * e < 6 * SpeechThreshold(sensitivity) =>
                  IF elapsed < 800
                  THEN /\ vh'.result = [label |-> "thinking_pause", confidence |-> 60,
                                        timestamp |-> now']
                       /\ vad'.isSpeaking
                  ELSE /\ vh'.result = [label |-> "turn_complete",
                                        confidence |-> Min((100 * elapsed) \div 1600, 100),
                                        timestamp |-> now']
                       /\ ~vad'.isSpeaking
             /\ 10 * e >= 6 * SpeechThreshold(sensitivity) =>
                  /\ vh'.result.label = "speaking"
                  /\ vad'.isSpeaking
             /\ vh'.completes <= 1]_vars

C26_Witness ==
    /\ vh.result.label = "turn_complete" /\ vh.result.confidence = 75
    /\ vh.completes = 1 /\ vh.n = MaxVadCalls

\* C27: when audio.start() rejects, start() rejects, isListening() is not
\* changed by it (it stays false unless an overlapping start() call set it),
\* and a start() call made afterwards passes the listening check, loads the
\* model and calls audio.start() again.
C27_CaptureFailure ==
    [][/\ hist'.rejected = hist.rejected + 1 =>
             /\ listening' = listening
             /\ ~hist.overlapped => ~listening'
             /\ starts'.capturing = starts.capturing - 1
       /\ (hist.rejected > 0 /\ hist'.nStartCalls = hist.nStartCalls + 1) =>
             ~listening /\ starts'.loading = starts.loading + 1
       /\ (hist.rejected > 0 /\ starts'.loading = starts.loading - 1) =>
             starts'.capturing = starts.capturing + 1]_vars

C27_Witness ==
    /\ hist.rejected = 1 /\ hist.nStartCalls = 2 /\ ~hist.overlapped
    /\ listening /\ audio.processor /\ hist.nChunks > 0

----------------------------------------------------------------------------
\* The confidence gate and the first speaking result (SpecTD)

\* C28: every process() call that emits an event (speechStart, pause, turnEnd
\* or interrupt) was given a result whose confidence is >= sensitivity.
C28_SensitivityGatesAll ==
    tdOut # <<>> => tdIn.confidence >= sensitivity

\* C29: a detector that is idle as constructed or as reset() leaves it emits,
\* on the one speaking result it processes next, exactly one speechStart with
\* that result's timestamp.
C29_SingleSpeakingEmits ==
    [][(det = DetectorInit /\ tdN' = tdN + 1 /\ tdIn'.label = "speaking") =>
          tdOut' = <<[type |-> "speechStart", timestamp |-> tdIn'.timestamp]>>]_vars

----------------------------------------------------------------------------
\* Harness: one FeatureExtractor driven by extract() calls

MaxExtractCalls == 560  \* extract() calls of one run of the extractor harness

\* Frame energies: 0 (an all-zero frame), and for two frames out of every 50
\* also 0.0099 and 0.01, the two sides of silenceThreshold.
FrameLevels(n) == IF n % 50 \in {0, 2} THEN {0, 99, 100} ELSE {0}

\* Frame lengths in samples: frameLength, and for every 50th frame also 800
\* (the length tests/features.test.ts uses for the pitch).
FrameLens(n) == IF n % 50 = 0 THEN {FrameLength, 800} ELSE {FrameLength}

\* A frame that is not silent is a pure sine of one of these frequencies.
SineFreqs == {50, 200}

FInit ==
    /\ Init

\* extract(frame) on a frame of energy e
FExtract ==
    /\ fh.n < MaxExtractCalls
    /\ \E e \in FrameLevels(fh.n), len \in FrameLens(fh.n) :
       \E f \in (IF e > 0 THEN SineFreqs ELSE {0}), pitch \in EstimatePitch(len) :
         /\ fe' = Extract(fe, e)
         /\ fh' = [n |-> fh.n + 1,
                   silent |-> IF e < 100 THEN fh.silent + 1 ELSE 0,
                   energy |-> e,
                   frameLen |-> len,
                   freq |-> f,
                   pitch |-> pitch]
    /\ now' = now + 10
    /\ UNCHANGED <<tdVars, listening, processing, sampleBuffer, sampleBufferCap, inflight,
                   starts, audio, mdl, vad, predicted, processed, hist,
                   twin, ir, listeners, calls, mh, vh, ph, eh>>

\* reset()
FReset ==
    /\ fh.n > 0
    /\ fh.n % 50 = 0
    /\ fe' = FeReset(fe)
    /\ fh' = [fh EXCEPT !.silent = 0]
    /\ UNCHANGED <<tdVars, listening, processing, sampleBuffer, sampleBufferCap, inflight,
                   starts, audio, mdl, vad, now, predicted, processed, hist,
                   twin, ir, listeners, calls, mh, vh, ph, eh>>

FNext == FExtract \/ FReset

SpecF == FInit /\ [][FNext]_vars

\* C30: the pauseDuration extract() returns is in [0, 1]; it is 0 after a
\* frame of energy >= 0.01; over consecutive frames of energy < 0.01 it never
\* decreases, grows with every frame up to the clamp, and is 1.0 from the
\* 500th of them on and not before.
C30_PauseDuration ==
    [][fh'.n = fh.n + 1 =>
          /\ ~DLess(PauseCapSec, PauseSec(fe'))
          /\ fh'.silent = 0 => PauseSec(fe') = DZero
          /\ fh'.silent > 0 => ~DLess(PauseSec(fe'), PauseSec(fe))
          /\ fh'.silent \in 1..500 => DLess(PauseSec(fe), PauseSec(fe'))
          /\ PauseSec(fe') = PauseCapSec <=> fh'.silent >= 500]_vars

\* C31: the speechRate extract() returns is in [0, 1], whatever the energies
\* of the frames so far and however many of them the rolling buffer holds.
C31_SpeechRateRange ==
    fh.n > 0 => (SpeechRate(fe) >= 0 /\ SpeechRate(fe) <= 100)

\* C32: for a frame that is a pure sine of frequency f in [50, 500) Hz and
\* at least 2 * (sampleRate / f) samples long, the pitch extract() returns is
\* not 0 and within 10% of f.
C32_SinePitch ==
    (fh.n > 0 /\ fh.freq >= 50 /\ fh.freq < 500
       /\ fh.frameLen >= 2 * (SampleRate \div fh.freq)) =>
        /\ fh.pitch # 0
        /\ 10 * fh.pitch >= 9 * fh.freq /\ 10 * fh.pitch <= 11 * fh.freq

----------------------------------------------------------------------------
\* C33: the audio stream is re-framed exactly. With the samples delivered since
\* the buffer was last zeroed and the frames extracted since then, no sample
\* is dropped or duplicated: whenever no pass is suspended between extract and
\* the advance, the buffer holds the delivered samples from offset
\* extracted * hopLength on, so the next frame starts at that offset.
C33_ReframingExact ==
    (inflight = {} /\ ~hist.overlapped) =>
        BufLen(sampleBuffer) = hist.delivered - hist.extracted * HopLength

----------------------------------------------------------------------------
\* The orchestrator with a listener that throws: after construction,
\* Utterance.on registered the listener g for speechStart on the detector.
EInit ==
    /\ Constructed
    /\ listeners = On(ListenersInit, "speechStart", "g")

SpecE == EInit /\ [][Next]_vars

\* C40: a frame is extracted once even when a listener throws during the
\* detector step for it: in the step in which detector.process threw, the
\* buffer still advanced by one hop for each frame the step extracted.
C40_ThrowStillAdvances ==
    [][hist'.threw > hist.threw =>
         BufLen(sampleBuffer') + HopLength * (hist'.extracted - hist.extracted)
           = BufLen(sampleBuffer) + (hist'.delivered - hist.delivered)]_vars

\* C34: no lost wakeup: whenever no processFrames pass is in flight, the
\* sample buffer holds fewer than frameLength samples.
C34_NoLostWakeup ==
    (inflight = {} /\ ~processing) => BufLen(sampleBuffer) < FrameLength

----------------------------------------------------------------------------
\* C35: the result of the silence override clears the confidence gate of the
\* detector for every sensitivity: when the detector is in state speaking, a
\* result runInference produced in silence mode from probabilities whose top
\* label is speaking or interrupt_intent moves it to paused and emits pause.
C35_OverrideClearsGate ==
    det.state = "speaking" =>
        \A probs \in ProbVecs :
            LABELS[ArgMax(probs)] \in {"speaking", "interrupt_intent"} =>
                LET r == Infer([ModelInit EXCEPT !.silenceMode = TRUE], 0, probs, now).result
                    s == Process(det, r, sensitivity, pauseTolerance)
                IN /\ r.label = "thinking_pause"
                   /\ s.det.state = "paused"
                   /\ Len(s.out) = 1 /\ s.out[1].type = "pause"

----------------------------------------------------------------------------
\* Harness: the pipeline of a session whose model never loaded. predict()
\* returns the result of EnergyVAD.classify for every frame and processFrames
\* hands it to TurnDetector.process; both were built from the same sensitivity.

\* Date.now() is followed for MaxClockMs after construction, and frames that
\* are not silent arrive in the first LoudMs of it only. The silence after the
\* last of them begins at most two frames later, so every timer of the pipeline
\* (pauseHintMs = 800 of that silence, pauseTolerance <= 1500 of the pause that
\* began with it) has run out before the clock reaches PClockCap: the frames
\* arriving later, all silent, are classified and processed as frames stamped
\* PClockCap are.
LoudMs == 1200
MaxClockMs == 6000
LoudUntil == StartClock + LoudMs
PClockCap == StartClock + MaxClockMs
PDeltas == {400, 1000}              \* ms between two frames

PLevels(t) == IF t < LoudUntil THEN {0, 40, 100} ELSE {0}

PInit ==
    /\ TDInit

\* One frame of energy e, dt ms after the frame before: predict() without a
\* session, then detector.process
PFrame ==
    /\ \E e \in PLevels(now), dt \in PDeltas :
       \E t \in {Min(now + dt, PClockCap)} :
       \E c \in {VadClassify(vad, e, t, sensitivity)} :
       \E s \in {Process(det, c.result, sensitivity, pauseTolerance)} :
         /\ vad' = c.vad
         /\ det' = s.det
         /\ now' = t
         /\ tdIn' = c.result
         /\ tdOut' = s.out
         /\ ph' = [fed |-> TRUE,
                   odd |-> ~ph.odd,
                   open |-> IF \E i \in 1..Len(s.out) : s.out[i].type = "turnEnd" THEN FALSE
                            ELSE IF \E i \in 1..Len(s.out) : s.out[i].type = "speechStart" THEN TRUE
                            ELSE ph.open,
                   quiet |-> ~AtLeastSilenceThreshold(e, sensitivity)]
    /\ UNCHANGED <<sensitivity, pauseTolerance, tdN, tdResets, tdCount, tdAllSpeaking, tdScript,
                   listening, processing, sampleBuffer, sampleBufferCap, inflight,
                   starts, audio, fe, mdl, predicted, processed, hist,
                   twin, ir, listeners, calls, mh, vh, fh, eh>>

PNext == PFrame

SpecP == PInit /\ [][PNext]_vars

\* Frames keep arriving: the audio callback goes on calling processFrames.
SpecPFair == SpecP /\ WF_vars(PFrame)

\* C36: with no model loaded, once speechStart has been emitted and the frame
\* energy stays below the silence threshold while frames keep arriving, a
\* turnEnd is eventually emitted, for every sensitivity.
C36_FallbackTurnEnds ==
    (ph.open /\ ph.quiet) ~> (~ph.open \/ ~ph.quiet)

\* C37: EnergyVAD.classify returns a result for every frame, labelled speaking,
\* thinking_pause or turn_complete and never interrupt_intent, so that the
\* detector of a session whose model never loaded emits no interrupt.
C37_FallbackNeverInterrupts ==
    ph.fed =>
        /\ tdIn.label \in {"speaking", "thinking_pause", "turn_complete"}
        /\ \A i \in 1..Len(tdOut) : tdOut[i].type # "interrupt"

C37_Witness ==
    /\ ph.fed
    /\ tdIn.label = "turn_complete"
    /\ \E i \in 1..Len(tdOut) : tdOut[i].type = "turnEnd"

----------------------------------------------------------------------------
\* C38: start() is safe against overlapping calls: at most one start() call is
\* loading the model or opening a capture stream at any time, and no capture
\* stream is opened over one that is still open, which stop() could then not
\* release.
C38_OverlappingStartSafe ==
    /\ starts.loading + starts.capturing <= 1
    /\ audio.leaked = 0

----------------------------------------------------------------------------
\* A process() call has just emitted the event e.
Emits(e) == tdN' = tdN + 1 /\ \E i \in 1..Len(tdOut') : tdOut'[i].type = e

\* C39: the events of a detector are well-formed whatever it is fed: a pause
\* or a turnEnd is emitted from state speaking or paused only, after a
\* speechStart that no turnEnd has followed yet, and a pause is emitted only
\* when no pause has been since the last speechStart.
C39_WellFormedTrace ==
    [][/\ (Emits("pause") \/ Emits("turnEnd")) =>
             (det.state \in {"speaking", "paused"} /\ eh.open)
       /\ Emits("pause") => ~eh.paused]_vars

C39_Witness ==
    /\ tdCount["speechStart"] = 1 /\ tdCount["pause"] = 1 /\ eh.open /\ eh.paused
    /\ tdIn.label = "thinking_pause" /\ tdIn.confidence >= sensitivity /\ tdOut = <<>>


====
